---- MODULE Spec2Model ----
(***************************************************************************)
(* Label placement inside a polygon: place_river_label of                  *)
(* river-label-placement/src/label_placement.py.                           *)
(*                                                                         *)
(* Coordinates are fixed-point numbers with Scale steps per geometry unit, *)
(* angles are in thousandths of a degree (Deg steps per degree).  Polygons *)
(* are rectilinear rings with integer-unit vertices, stored closed (first  *)
(* vertex repeated at the end) as the geometry library stores them.        *)
(***************************************************************************)
EXTENDS Integers, Sequences, FiniteSets, TLC

\* ---------------- CONFIG (label_placement.py 15-21) ----------------
LABEL_TEXT == <<"E", "L", "B", "E">>
ANGLE_SAMPLE_EPS == 5
STACKED_TEXT_OFFSET == 2
MAX_OFFSET_STEPS == 6
HORIZONTAL_THRESHOLD == 25
VERTICAL_THRESHOLD == 40

\* ---------------- number representation ----------------
Scale == 100
Deg == 1000

Abs(n) == IF n < 0 THEN -n ELSE n
Min(a, b) == IF a <= b THEN a ELSE b
Max(a, b) == IF a >= b THEN a ELSE b
Clamp(v, lo, hi) == Max(lo, Min(v, hi))

\* n / d rounded to the nearest integer, d > 0
RoundDiv(n, d) ==
    IF n >= 0 THEN (2 * n + d) \div (2 * d) ELSE -((2 * (-n) + d) \div (2 * d))

RECURSIVE ISqrtBetween(_, _, _)
ISqrtBetween(n, lo, hi) ==
    IF lo >= hi THEN lo
    ELSE LET mid == (lo + hi + 1) \div 2
         IN  IF mid * mid <= n THEN ISqrtBetween(n, mid, hi)
                               ELSE ISqrtBetween(n, lo, mid - 1)

\* floor of the square root, 0 <= n < 2^30
ISqrt(n) == ISqrtBetween(n, 0, 32767)

\* ---------------- polygon boundary (shapely LinearRing) ----------------
Boundary(poly) == [i \in 1..Len(poly) |-> <<poly[i][1] * Scale, poly[i][2] * Scale>>]

SegLen(a, b) == Abs(a[1] - b[1]) + Abs(a[2] - b[2])

RECURSIVE LengthUpTo(_, _)
\* arc length of the ring from its first vertex to vertex i
LengthUpTo(ring, i) ==
    IF i <= 1 THEN 0 ELSE LengthUpTo(ring, i - 1) + SegLen(ring[i - 1], ring[i])

RingLength(ring) == LengthUpTo(ring, Len(ring))

\* closest point of the axis-parallel segment a-b to p
ClosestOnSeg(a, b, p) ==
    <<Clamp(p[1], Min(a[1], b[1]), Max(a[1], b[1])),
      Clamp(p[2], Min(a[2], b[2]), Max(a[2], b[2]))>>

Dist2(p, q) == (p[1] - q[1]) * (p[1] - q[1]) + (p[2] - q[2]) * (p[2] - q[2])

SegDist2(ring, i, p) == Dist2(p, ClosestOnSeg(ring[i], ring[i + 1], p))

\* the first segment, in ring order, at minimal distance from p
NearestSeg(ring, p) ==
    CHOOSE i \in 1..(Len(ring) - 1) :
        /\ \A j \in 1..(Len(ring) - 1) : SegDist2(ring, i, p) <= SegDist2(ring, j, p)
        /\ \A j \in 1..(i - 1) : SegDist2(ring, j, p) > SegDist2(ring, i, p)

\* nearest_points(boundary, p)[0]
NearestOnBoundary(ring, p) ==
    LET i == NearestSeg(ring, p) IN ClosestOnSeg(ring[i], ring[i + 1], p)

\* boundary.project(p): arc length of the boundary point nearest to p
Project(ring, p) ==
    LET i == NearestSeg(ring, p)
    IN  LengthUpTo(ring, i) + SegLen(ring[i], ClosestOnSeg(ring[i], ring[i + 1], p))

Sign(n) == IF n > 0 THEN 1 ELSE IF n < 0 THEN -1 ELSE 0

\* boundary.interpolate(d): the point at arc length d, clamped to the ring's ends
Interpolate(ring, d) ==
    IF d <= 0 THEN ring[1]
    ELSE IF d >= RingLength(ring) THEN ring[Len(ring)]
    ELSE LET i == CHOOSE k \in 1..(Len(ring) - 1) :
                      LengthUpTo(ring, k) <= d /\ d < LengthUpTo(ring, k + 1)
             a == ring[i]
             b == ring[i + 1]
             t == d - LengthUpTo(ring, i)
         IN  <<a[1] + t * Sign(b[1] - a[1]), a[2] + t * Sign(b[2] - a[2])>>

\* ---------------- containment (shapely Polygon.contains) ----------------
OnSeg(a, b, p) ==
    /\ Min(a[1], b[1]) <= p[1] /\ p[1] <= Max(a[1], b[1])
    /\ Min(a[2], b[2]) <= p[2] /\ p[2] <= Max(a[2], b[2])

OnBoundary(ring, p) == \E i \in 1..(Len(ring) - 1) : OnSeg(ring[i], ring[i + 1], p)

\* vertical edges strictly right of p whose y-range straddles p (half-open)
CrossingsRight(ring, p) ==
    {i \in 1..(Len(ring) - 1) :
        /\ ring[i][1] = ring[i + 1][1]
        /\ ring[i][1] > p[1]
        /\ Min(ring[i][2], ring[i + 1][2]) <= p[2]
        /\ p[2] < Max(ring[i][2], ring[i + 1][2])}

\* poly.contains(Point): the point lies in the interior, never on the boundary
ContainsPoint(poly, p) ==
    LET ring == Boundary(poly)
    IN  /\ ~OnBoundary(ring, p)
        /\ Cardinality(CrossingsRight(ring, p)) % 2 = 1

\* an edge of the ring passes through the open interior of the box
EdgeCutsBox(a, b, bx) ==
    /\ Min(a[1], b[1]) < bx.maxx /\ Max(a[1], b[1]) > bx.minx
    /\ Min(a[2], b[2]) < bx.maxy /\ Max(a[2], b[2]) > bx.miny

\* poly.contains(box): no point of the box lies outside the closed polygon
ContainsBox(poly, bx) ==
    LET ring == Boundary(poly)
        c == <<(bx.minx + bx.maxx) \div 2, (bx.miny + bx.maxy) \div 2>>
    IN  /\ \A i \in 1..(Len(ring) - 1) : ~EdgeCutsBox(ring[i], ring[i + 1], bx)
        /\ ContainsPoint(poly, c)

\* ---------------- anchor candidates ----------------
\* cross product term of the shoelace formula for edge i (integer units)
Cross(poly, i) == poly[i][1] * poly[i + 1][2] - poly[i + 1][1] * poly[i][2]

RECURSIVE SumSeq(_)
SumSeq(q) == IF q = <<>> THEN 0 ELSE Head(q) + SumSeq(Tail(q))

\* twice the signed area of the ring
Area2(poly) == SumSeq([i \in 1..(Len(poly) - 1) |-> Cross(poly, i)])

MomentX(poly) ==
    SumSeq([i \in 1..(Len(poly) - 1) |-> (poly[i][1] + poly[i + 1][1]) * Cross(poly, i)])
MomentY(poly) ==
    SumSeq([i \in 1..(Len(poly) - 1) |-> (poly[i][2] + poly[i + 1][2]) * Cross(poly, i)])

\* main_poly.centroid: area-weighted centroid of the ring, in fixed point
Centroid(poly) ==
    LET a2 == Area2(poly)
        s  == Sign(a2)
    IN  <<RoundDiv(Scale * s * MomentX(poly), 3 * s * a2),
          RoundDiv(Scale * s * MomentY(poly), 3 * s * a2)>>

SetMin(S) == CHOOSE m \in S : \A e \in S : m <= e
SetMax(S) == CHOOSE m \in S : \A e \in S : m >= e

RECURSIVE SortedSeq(_)
SortedSeq(S) ==
    IF S = {} THEN <<>> ELSE LET m == SetMin(S) IN <<m>> \o SortedSeq(S \ {m})

\* the scan line of the interior point: midway between the vertex ordinates
\* nearest to the centre of the envelope, below-or-at and above
ScanLineY(ring) ==
    LET ys      == {ring[i][2] : i \in 1..Len(ring)}
        centreY == (SetMin(ys) + SetMax(ys)) \div 2
        loY     == SetMax({y \in ys : y <= centreY})
        hiY     == SetMin({y \in ys : y > centreY} \cup {SetMax(ys)})
    IN  (hiY + loY) \div 2

\* abscissas where the ring crosses the scan line (the upper end of an edge
\* does not count)
ScanCrossings(ring, y) ==
    {ring[i][1] : i \in {k \in 1..(Len(ring) - 1) :
        /\ ring[k][1] = ring[k + 1][1]
        /\ Min(ring[k][2], ring[k + 1][2]) <= y
        /\ y < Max(ring[k][2], ring[k + 1][2])}}

\* main_poly.representative_point(): midpoint of the widest interior section
\* of the scan line, the first one among equally wide sections
RepresentativePoint(poly) ==
    LET ring == Boundary(poly)
        y    == ScanLineY(ring)
        xs   == SortedSeq(ScanCrossings(ring, y))
        W(k) == xs[2 * k] - xs[2 * k - 1]
        n    == Len(xs) \div 2
        best == CHOOSE k \in 1..n :
                    /\ \A j \in 1..n : W(k) >= W(j)
                    /\ \A j \in 1..(k - 1) : W(j) < W(k)
    IN  IF n = 0 THEN ring[1]
        ELSE <<(xs[2 * best - 1] + xs[2 * best]) \div 2, y>>

\* ---------------- angles ----------------
\* atan(2^-i) in millionths of a degree, i = 0..23
AtanTable ==
    <<45000000, 26565051, 14036243, 7125016, 3576334, 1789911, 895174, 447614,
      223811, 111906, 55953, 27976, 13988, 6994, 3497, 1749, 874, 437, 219,
      109, 55, 27, 14, 7>>

RECURSIVE Pow2(_)
Pow2(i) == IF i = 0 THEN 1 ELSE 2 * Pow2(i - 1)

RECURSIVE Cordic(_, _, _, _)
\* rotate (x, y) onto the x axis, accumulating the angle turned
Cordic(x, y, a, i) ==
    IF i >= Len(AtanTable) THEN a
    ELSE IF y > 0
         THEN Cordic(x + (y \div Pow2(i)), y - (x \div Pow2(i)), a + AtanTable[i + 1], i + 1)
         ELSE Cordic(x - (y \div Pow2(i)), y + (x \div Pow2(i)), a - AtanTable[i + 1], i + 1)

\* arctangent of dy/dx for dx, dy > 0, in thousandths of a degree
AtanQ1(dy, dx) ==
    LET k == 1048576 \div Max(dx, dy)
    IN  Clamp(RoundDiv(Cordic(dx * k, dy * k, 0, 0), 1000), 1, 90 * Deg - 1)

\* math.degrees(math.atan2(dy, dx)), in thousandths of a degree
Atan2Deg(dy, dx) ==
    IF dy = 0 THEN (IF dx >= 0 THEN 0 ELSE 180 * Deg)
    ELSE IF dx = 0 THEN (IF dy > 0 THEN 90 * Deg ELSE -90 * Deg)
    ELSE LET q == AtanQ1(Abs(dy), Abs(dx))
         IN  IF dx > 0 THEN (IF dy > 0 THEN q ELSE -q)
             ELSE (IF dy > 0 THEN 180 * Deg - q ELSE q - 180 * Deg)

\* ---------------- ORIENTATION (label_placement.py 38-58) ----------------
\* keep the text upright: an angle outside [-90, 90] is shifted by 180
NormalizeAngle(raw) ==
    IF raw < -90 * Deg \/ raw > 90 * Deg THEN raw + 180 * Deg ELSE raw

\* "\n".join(text)
RECURSIVE JoinNewline(_)
JoinNewline(text) ==
    IF Len(text) <= 1 THEN text
    ELSE <<Head(text), "\n">> \o JoinNewline(Tail(text))

\* variant: the horizontal threshold taken as exclusive
ClassifyExclusive(angle) ==
    LET abs_angle == Abs(angle)
    IN  IF abs_angle < HORIZONTAL_THRESHOLD * Deg
        THEN [final_angle |-> 0, label_text |-> LABEL_TEXT]
        ELSE IF abs_angle >= VERTICAL_THRESHOLD * Deg
        THEN [final_angle |-> 0, label_text |-> JoinNewline(LABEL_TEXT)]
        ELSE [final_angle |-> angle, label_text |-> LABEL_TEXT]

\* rotation and text variant chosen from the normalized angle
Classify(angle) ==
    LET abs_angle == Abs(angle)
    IN  IF abs_angle <= HORIZONTAL_THRESHOLD * Deg
        THEN [final_angle |-> 0, label_text |-> LABEL_TEXT]
        ELSE IF abs_angle >= VERTICAL_THRESHOLD * Deg
        THEN [final_angle |-> 0, label_text |-> JoinNewline(LABEL_TEXT)]
        ELSE [final_angle |-> angle, label_text |-> LABEL_TEXT]

\* ---------------- BBOX-AWARE PLACEMENT (label_placement.py 69-118) --------
\* math.hypot(dx, dy), in sixteenths of a fixed-point step
Hypot16(dx, dy) == ISqrt(256 * (dx * dx + dy * dy))

\* variant: the two normals in the opposite order
NormalsSwapped(dx, dy) ==
    LET len == Hypot16(dx, dy)
        k   == 16 * STACKED_TEXT_OFFSET * Scale
    IN  << <<RoundDiv(dy * k, len), RoundDiv(-dx * k, len)>>,
           <<RoundDiv(-dy * k, len), RoundDiv(dx * k, len)>> >>

\* the two unit normals of the tangent, scaled by the offset distance
Normals(dx, dy) ==
    LET len == Hypot16(dx, dy)
        k   == 16 * STACKED_TEXT_OFFSET * Scale
    IN  << <<RoundDiv(-dy * k, len), RoundDiv(dx * k, len)>>,
           <<RoundDiv(dy * k, len), RoundDiv(-dx * k, len)>> >>

\* variant: the offsets are dropped
TranslateDropped(p, off) == p

\* translate(point, xoff, yoff)
Translate(p, off) == <<p[1] + off[1], p[2] + off[2]>>

\* the candidates of one refinement step, in the order they are tried
Candidates(p, dx, dy) ==
    LET n == Normals(dx, dy) IN <<Translate(p, n[1]), Translate(p, n[2])>>

\* indices of the candidates the polygon contains
Viable(poly, p, dx, dy) ==
    {k \in 1..2 : ContainsPoint(poly, Candidates(p, dx, dy)[k])}

\* the box the render surface reports for the text drawn centred at p
TextBox(p, hw, hh) ==
    [minx |-> p[1] - hw, miny |-> p[2] - hh, maxx |-> p[1] + hw, maxy |-> p[2] + hh]

\* variant: only the anchor, not the measured box, is tested
LabelFitsAnchorOnly(poly, bx) ==
    ContainsPoint(poly, <<(bx.minx + bx.maxx) \div 2, (bx.miny + bx.maxy) \div 2>>)

\* main_poly.contains(text_box), the test that ends the loop with success
LabelFits(poly, bx) == ContainsBox(poly, bx)

\* text_artist.remove()
RemoveArtist(texts, artist) ==
    SelectSeq(texts, LAMBDA t : \A k \in 1..Len(artist) : t.id # artist[k].id)

\* ---------------- inputs ----------------
MaxHalfExtent == 4

\* half width and half height of the measured text box, in fixed point
HalfExtents == {(2 * k - 1) * Scale : k \in 1..MaxHalfExtent}

\* counter-clockwise axis-parallel rectangle (0,0)-(w,h), starting at the origin
Rect(w, h) == <<<<0, 0>>, <<w, 0>>, <<w, h>>, <<0, h>>, <<0, 0>>>>

\* the same ring started at its vertex k + 1
Rotated(ring, k) ==
    LET n == Len(ring) - 1
    IN  [i \in 1..(n + 1) |-> ring[((i - 1 + k) % n) + 1]]

Reversed(ring) == [i \in 1..Len(ring) |-> ring[Len(ring) + 1 - i]]

\* every starting vertex and both traversal directions of a ring
Variants(ring) ==
    LET rs == {Rotated(ring, k) : k \in 0..(Len(ring) - 2)}
    IN  rs \cup {Reversed(r) : r \in rs}

ElbeRect == Rect(100, 10)
TallRect == Rect(10, 100)
LShape == <<<<0, 0>>, <<20, 0>>, <<20, 10>>, <<10, 10>>, <<10, 20>>, <<0, 20>>, <<0, 0>>>>
UShape == <<<<0, 0>>, <<30, 0>>, <<30, 30>>, <<20, 30>>, <<20, 10>>, <<10, 10>>,
            <<10, 30>>, <<0, 30>>, <<0, 0>>>>

Polygons ==
    Variants(ElbeRect) \cup Variants(TallRect) \cup Variants(LShape)
        \cup Variants(UShape) \cup Variants(Rect(4, 2)) \cup Variants(Rect(2, 1))
        \cup Variants(Rect(40, 30))

\* ---------------- state ----------------
VARIABLES
    pc,           \* position in place_river_label
    main_poly,    \* the dominant polygon's ring, integer units
    halfW, halfH, \* extent of the text box the render surface reports
    label_point,  \* the anchor
    p1, p2,       \* boundary samples spanning the local tangent
    raw_angle,    \* tangent angle, normalized once computed
    final_angle,  \* rotation of the drawn text
    label_text,   \* text variant
    step,         \* iterations of the placement loop started so far
    text_artist,  \* <<>> for None, else <<the artist drawn last>>
    text_box,     \* the box measured last
    fig,          \* the figure: its text artists and its title
    exit,         \* how the placement loop ended
    measured      \* anchors at which the text was measured, in order

vars == <<pc, main_poly, halfW, halfH, label_point, p1, p2, raw_angle, final_angle,
          label_text, step, text_artist, text_box, fig, exit, measured>>

NoPoint == <<0, 0>>
NoBox == [minx |-> 0, miny |-> 0, maxx |-> 0, maxy |-> 0]
TITLE == <<"Cartographic River Label Placement">>

Init ==
    /\ pc = "anchor"
    /\ main_poly \in Polygons
    /\ halfW \in HalfExtents
    /\ halfH \in HalfExtents
    /\ label_point = NoPoint
    /\ p1 = NoPoint
    /\ p2 = NoPoint
    /\ raw_angle = 0
    /\ final_angle = 0
    /\ label_text = <<>>
    /\ step = 0
    /\ text_artist = <<>>
    /\ text_box = NoBox
    /\ fig = [texts |-> <<>>, title |-> <<>>]
    /\ exit = "none"
    /\ measured = <<>>

\* variant: the centroid is used without the containment test
InitialAnchorCentroidOnly(poly) == Centroid(poly)

\* label_placement.py 34-35
InitialAnchor(poly) ==
    LET centroid == Centroid(poly)
    IN  IF ContainsPoint(poly, centroid) THEN centroid ELSE RepresentativePoint(poly)

SelectAnchor ==
    /\ pc = "anchor"
    /\ label_point' = InitialAnchor(main_poly)
    /\ pc' = "orient"
    /\ UNCHANGED <<main_poly, halfW, halfH, p1, p2, raw_angle, final_angle, label_text,
                   step, text_artist, text_box, fig, exit, measured>>

\* label_placement.py 38-44
Orient ==
    /\ pc = "orient"
    /\ LET ring           == Boundary(main_poly)
           boundary_point == NearestOnBoundary(ring, label_point)
           d              == Project(ring, boundary_point)
           q1 == Interpolate(ring, Max(d - ANGLE_SAMPLE_EPS * Scale, 0))
           q2 == Interpolate(ring, d + ANGLE_SAMPLE_EPS * Scale)
       IN  /\ p1' = q1
           /\ p2' = q2
           /\ raw_angle' = Atan2Deg(q2[2] - q1[2], q2[1] - q1[1])
    /\ pc' = "normalize"
    /\ UNCHANGED <<main_poly, halfW, halfH, label_point, final_angle, label_text,
                   step, text_artist, text_box, fig, exit, measured>>

\* label_placement.py 45-46
Normalize ==
    /\ pc = "normalize"
    /\ raw_angle' = NormalizeAngle(raw_angle)
    /\ pc' = "classify"
    /\ UNCHANGED <<main_poly, halfW, halfH, label_point, p1, p2, final_angle, label_text,
                   step, text_artist, text_box, fig, exit, measured>>

\* label_placement.py 48-69
ChooseLayout ==
    /\ pc = "classify"
    /\ final_angle' = Classify(raw_angle).final_angle
    /\ label_text' = Classify(raw_angle).label_text
    /\ pc' = "loop"
    /\ UNCHANGED <<main_poly, halfW, halfH, label_point, p1, p2, raw_angle,
                   step, text_artist, text_box, fig, exit, measured>>

\* variant: one iteration too many
LoopContinuesOffByOne(n) == n <= MAX_OFFSET_STEPS

\* the loop runs while iterations remain (label_placement.py 71)
LoopContinues(n) == n < MAX_OFFSET_STEPS

\* label_placement.py 71-95: replace the drawn text and measure it
DrawAndMeasure ==
    /\ pc = "loop"
    /\ LoopContinues(step)
    /\ LET artist == [id |-> step + 1, x |-> label_point[1], y |-> label_point[2],
                      text |-> label_text, rotation |-> final_angle]
       IN  /\ fig' = [fig EXCEPT !.texts = Append(RemoveArtist(fig.texts, text_artist), artist)]
           /\ text_artist' = <<artist>>
    /\ text_box' = TextBox(label_point, halfW, halfH)
    /\ measured' = Append(measured, label_point)
    /\ step' = step + 1
    /\ pc' = "check"
    /\ UNCHANGED <<main_poly, halfW, halfH, label_point, p1, p2, raw_angle, final_angle,
                   label_text, exit>>

\* label_placement.py 71: the iterations are used up
Exhausted ==
    /\ pc = "loop"
    /\ ~LoopContinues(step)
    /\ exit' = "exhausted"
    /\ pc' = "return"
    /\ UNCHANGED <<main_poly, halfW, halfH, label_point, p1, p2, raw_angle, final_angle,
                   label_text, step, text_artist, text_box, fig, measured>>

\* label_placement.py 97-98
Contained ==
    /\ pc = "check"
    /\ LabelFits(main_poly, text_box)
    /\ exit' = "contained"
    /\ pc' = "return"
    /\ UNCHANGED <<main_poly, halfW, halfH, label_point, p1, p2, raw_angle, final_angle,
                   label_text, step, text_artist, text_box, fig, measured>>

TangentDx == p2[1] - p1[1]
TangentDy == p2[2] - p1[2]

\* label_placement.py 100-104
ZeroLength ==
    /\ pc = "check"
    /\ ~LabelFits(main_poly, text_box)
    /\ Hypot16(TangentDx, TangentDy) = 0
    /\ exit' = "zero_length"
    /\ pc' = "return"
    /\ UNCHANGED <<main_poly, halfW, halfH, label_point, p1, p2, raw_angle, final_angle,
                   label_text, step, text_artist, text_box, fig, measured>>

\* label_placement.py 106-116: take the first candidate the polygon contains
Move ==
    /\ pc = "check"
    /\ ~LabelFits(main_poly, text_box)
    /\ Hypot16(TangentDx, TangentDy) # 0
    /\ Viable(main_poly, label_point, TangentDx, TangentDy) # {}
    /\ label_point' = Candidates(label_point, TangentDx, TangentDy)[
                          SetMin(Viable(main_poly, label_point, TangentDx, TangentDy))]
    /\ pc' = "loop"
    /\ UNCHANGED <<main_poly, halfW, halfH, p1, p2, raw_angle, final_angle,
                   label_text, step, text_artist, text_box, fig, exit, measured>>

\* label_placement.py 117-118
NoMove ==
    /\ pc = "check"
    /\ ~LabelFits(main_poly, text_box)
    /\ Hypot16(TangentDx, TangentDy) # 0
    /\ Viable(main_poly, label_point, TangentDx, TangentDy) = {}
    /\ exit' = "no_move"
    /\ pc' = "return"
    /\ UNCHANGED <<main_poly, halfW, halfH, label_point, p1, p2, raw_angle, final_angle,
                   label_text, step, text_artist, text_box, fig, measured>>

\* label_placement.py 120-121
Return ==
    /\ pc = "return"
    /\ fig' = [fig EXCEPT !.title = TITLE]
    /\ pc' = "done"
    /\ UNCHANGED <<main_poly, halfW, halfH, label_point, p1, p2, raw_angle, final_angle,
                   label_text, step, text_artist, text_box, exit, measured>>

Next ==
    \/ SelectAnchor
    \/ Orient
    \/ Normalize
    \/ ChooseLayout
    \/ DrawAndMeasure
    \/ Exhausted
    \/ Contained
    \/ ZeroLength
    \/ Move
    \/ NoMove
    \/ Return

Spec == Init /\ [][Next]_vars

\* ---------------- orientation on its own ----------------
\* every whole degree the arctangent can return, and the neighbours of the
\* two thresholds
RawAngles ==
    {d * Deg : d \in -179..180}
        \cup {s * (t * Deg + e) : s \in {-1, 1},
                                  t \in {HORIZONTAL_THRESHOLD, VERTICAL_THRESHOLD},
                                  e \in {-1, 1}}

AngleInit ==
    /\ pc = "normalize"
    /\ raw_angle \in RawAngles
    /\ main_poly = ElbeRect
    /\ halfW = Scale
    /\ halfH = Scale
    /\ label_point = InitialAnchor(ElbeRect)
    /\ p1 = NoPoint
    /\ p2 = NoPoint
    /\ final_angle = 0
    /\ label_text = <<>>
    /\ step = 0
    /\ text_artist = <<>>
    /\ text_box = NoBox
    /\ fig = [texts |-> <<>>, title |-> <<>>]
    /\ exit = "none"
    /\ measured = <<>>

AngleNext == Normalize \/ ChooseLayout

AngleSpec == AngleInit /\ [][AngleNext]_vars

\* ---------------- properties ----------------
Ended == pc \in {"return", "done"}
ArtistPoint(a) == <<a.x, a.y>>

\* C1: when the loop ends through the containment check, the figure holds the
\* label whose measured box is the one tested, and the polygon contains it
C1_ContainedOnSuccess ==
    exit = "contained" =>
        /\ Len(fig.texts) = 1
        /\ text_box = TextBox(ArtistPoint(fig.texts[1]), halfW, halfH)
        /\ ContainsBox(main_poly, text_box)

C1_Witness ==
    /\ pc = "done"
    /\ exit = "contained"
    /\ Len(measured) > 1

\* the returned figure carries a "not verified" mark
NotVerifiedFlag(result) == "not_verified" \in DOMAIN result

\* C2: a returned placement carries the "not verified" flag exactly when the
\* loop did not end through the containment check
C2_UnverifiedFlagged ==
    pc = "done" => (NotVerifiedFlag(fig) <=> exit # "contained")

\* number of steps the run can still take, at most
Rank ==
    CASE pc = "anchor"    -> 2 * MAX_OFFSET_STEPS + 6
      [] pc = "orient"    -> 2 * MAX_OFFSET_STEPS + 5
      [] pc = "normalize" -> 2 * MAX_OFFSET_STEPS + 4
      [] pc = "classify"  -> 2 * MAX_OFFSET_STEPS + 3
      [] pc = "loop"      -> 2 * (MAX_OFFSET_STEPS - step) + 2
      [] pc = "check"     -> 2 * (MAX_OFFSET_STEPS - step) + 3
      [] pc = "return"    -> 1
      [] pc = "done"      -> 0

\* C3: at most MAX_OFFSET_STEPS measurements are made in a run, and the run
\* terminates: every step lowers a rank that is never negative, so no run
\* goes on to a further measurement
C3_BoundedMeasurements ==
    [][/\ Len(measured') <= MAX_OFFSET_STEPS
       /\ 0 <= Rank'
       /\ Rank' < Rank]_vars

C3_Witness ==
    /\ pc = "done"
    /\ Len(measured) = MAX_OFFSET_STEPS
    /\ exit = "exhausted"

\* C4: once selected, the anchor is always strictly inside the polygon
C4_AnchorInside ==
    pc # "anchor" => ContainsPoint(main_poly, label_point)

C4_Witness ==
    /\ pc = "done"
    /\ ~ContainsPoint(main_poly, Centroid(main_poly))
    /\ label_point # RepresentativePoint(main_poly)

\* C5: after normalization the tangent angle lies in [-90, 90] degrees
C5_NormalizedInRange ==
    pc \notin {"anchor", "orient", "normalize"} =>
        (-90 * Deg <= raw_angle /\ raw_angle <= 90 * Deg)

\* C6: rotation and text variant are decided by the absolute normalized angle
\* alone, with both thresholds inclusive: up to 25 flat and unmodified, from 40
\* flat and one character per line, in between rotated by the angle and
\* unmodified
C6_LayoutByAbsAngle ==
    pc = "loop" =>
        LET a == Abs(raw_angle)
        IN  /\ a <= 25 * Deg => (final_angle = 0 /\ label_text = <<"E", "L", "B", "E">>)
            /\ a >= 40 * Deg =>
                   (final_angle = 0 /\ label_text = <<"E", "\n", "L", "\n", "B", "\n", "E">>)
            /\ (25 * Deg < a /\ a < 40 * Deg) =>
                   (final_angle = raw_angle /\ label_text = <<"E", "L", "B", "E">>)

C6_Witness ==
    /\ pc = "loop"
    /\ raw_angle = -25 * Deg
    /\ final_angle = 0
    /\ Len(label_text) = 4

\* C7: the rectangle (0,0)-(100,10), whatever the start vertex and direction
\* of its ring, gets anchor (50, 5), rotation 0 and unstacked text
C7_ElbeHorizontal ==
    (main_poly \in Variants(ElbeRect) /\ pc = "loop" /\ step = 0) =>
        /\ label_point = <<50 * Scale, 5 * Scale>>
        /\ final_angle = 0
        /\ label_text = LABEL_TEXT

\* the move m is the offset along the normal on the given side of (dx, dy),
\* up to the rounding of the fixed-point coordinates
AlongNormal(m, dx, dy, side) ==
    /\ side * (dx * m[2] - dy * m[1]) > 0
    /\ 2 * Abs(m[1] * dx + m[2] * dy) <= Abs(dx) + Abs(dy)
    /\ Abs(m[1] * m[1] + m[2] * m[2]
            - STACKED_TEXT_OFFSET * Scale * STACKED_TEXT_OFFSET * Scale)
           <= 2 * STACKED_TEXT_OFFSET * Scale

\* C8: after a measurement that is not contained, the anchor moves by the
\* offset along the first normal (-dy, dx) if that candidate is contained, else
\* along the opposite normal if that one is; otherwise (or with a zero-length
\* tangent) the loop ends with the anchor unchanged, and nothing is measured
\* after the loop has ended
C8_MoveRule ==
    [][/\ (pc = "check" /\ ~ContainsBox(main_poly, text_box)) =>
            LET dx == p2[1] - p1[1]
                dy == p2[2] - p1[2]
                nonzero == dx # 0 \/ dy # 0
                c == Candidates(label_point, dx, dy)
                m == <<label_point'[1] - label_point[1], label_point'[2] - label_point[2]>>
            IN  IF nonzero /\ ContainsPoint(main_poly, c[1])
                THEN label_point' = c[1] /\ AlongNormal(m, dx, dy, 1) /\ pc' = "loop"
                ELSE IF nonzero /\ ContainsPoint(main_poly, c[2])
                THEN label_point' = c[2] /\ AlongNormal(m, dx, dy, -1) /\ pc' = "loop"
                ELSE label_point' = label_point /\ pc' = "return" /\ measured' = measured
       /\ Ended => (measured' = measured /\ label_point' = label_point)]_vars

\* a move along the opposite normal was accepted
C8_Witness ==
    /\ pc = "done"
    /\ \E k \in 1..(Len(measured) - 1) :
           (p2[1] - p1[1]) * (measured[k + 1][2] - measured[k][2])
               - (p2[2] - p1[2]) * (measured[k + 1][1] - measured[k][1]) < 0

\* C9: at return the figure holds exactly one label, drawn at the final
\* anchor, which is the position measured last
C9_LabelAtFinalAnchor ==
    pc = "done" =>
        /\ Len(fig.texts) = 1
        /\ ArtistPoint(fig.texts[1]) = label_point
        /\ label_point = measured[Len(measured)]

\* C10 as stated: no anchor position is measured twice in a run
C10_NoPositionMeasuredTwice ==
    \A i, j \in 1..Len(measured) : i # j => measured[i] # measured[j]

\* C10 amended: two consecutive measurements are never at the same position
C10_ConsecutiveMeasurementsDiffer ==
    \A k \in 1..(Len(measured) - 1) : measured[k] # measured[k + 1]

\* a position was measured again two iterations later
C10_Witness ==
    /\ pc = "done"
    /\ \E k \in 1..(Len(measured) - 2) : measured[k] = measured[k + 2]

====
